---- MODULE Spec2Model ----
(***************************************************************************)
(* Model of the Data Analysis API (main.py): the /clustering and           *)
(* /similarity request handlers, and the clustering helpers they rely on   *)
(* (find_best_dbscan_params, CustomMFA, align_labels), which live in       *)
(* helpers/clustering_helpers and are modelled from their specification.   *)
(*                                                                         *)
(* Library calls whose numeric result is opaque here (DBSCAN fit,          *)
(* silhouette_score, model.encode + cosine_similarity, argsort's order     *)
(* among equal keys) are nondeterministic choices over their outcomes.     *)
(* Optional values are sequences of length at most one: None is <<>>.      *)
(***************************************************************************)
EXTENDS Integers, Sequences, FiniteSets, TLC

VARIABLES phase, endpoint, request, response, computed

vars == <<phase, endpoint, request, response, computed>>

---------------------------------------------------------------------------
\* Bounds of the model.

\* rows of an uploaded table
NRows == 3
\* columns of an uploaded table
MaxCols == 2
\* largest size of the Cartesian product eps_range x min_samples_range
MaxCombos == 4
\* largest one-hot width of a categorical column (its number of categories)
MaxLevels == 2
\* the cap of a request that sets one below the default
SmallCap == 1
\* largest top_k of a similarity request
MaxTopK == 4

\* ClusteringParams.max_grid_search_combinations default
DefaultMaxGridSearchCombinations == 9
\* ClusteringParams.n_components_global default
DefaultNComponentsGlobal == 2

None == <<>>
Some(v) == <<v>>

Min(a, b) == IF a < b THEN a ELSE b

\* np.arange(lo, hi) as a sequence: <<lo, ..., hi-1>>
Range(lo, hi) == [i \in 1..(IF hi > lo THEN hi - lo ELSE 0) |-> lo + i - 1]

SeqToSet(s) == {s[i] : i \in DOMAIN s}

---------------------------------------------------------------------------
\* The grid search helper (helpers.clustering_helpers.find_best_dbscan_params).

\* -1 is the noise sentinel of a partition
Noise == -1

AllNoise == [i \in 1..NRows |-> Noise]
SingleCluster == [i \in 1..NRows |-> 0]
TwoClusters == [i \in 1..NRows |-> IF i = NRows THEN 1 ELSE 0]
NoisySplit == [i \in 1..NRows |-> IF i = 1 THEN Noise ELSE IF i = NRows THEN 1 ELSE 0]
Singletons == [i \in 1..NRows |-> i - 1]

\* number of distinct identifiers excluding noise
NClusters(labels) == Cardinality(SeqToSet(labels) \ {Noise})

NoisePoints(labels) == Cardinality({i \in DOMAIN labels : labels[i] = Noise})

\* silhouette is undefined with fewer than 2 clusters or as many clusters as rows
Degenerate(labels) == NClusters(labels) < 2 \/ NClusters(labels) >= Len(labels)

\* silhouette values, as integers on an ordered scale (the coefficient lies in [-1, 1])
Silhouettes == {-1, 1}

\* what one DBSCAN fit and its silhouette can come out as
FitOutcomes ==
    {[labels |-> p, sil |-> s] : p \in {TwoClusters, NoisySplit}, s \in Silhouettes}
    \cup {[labels |-> p, sil |-> 0] : p \in {AllNoise, SingleCluster, Singletons}}

Undefined == None

SilhouetteScore(labels, sil) == IF Degenerate(labels) THEN Undefined ELSE Some(sil)

\* inner loop over min_samples_range for one eps
RECURSIVE InnerLoop(_, _, _)
InnerLoop(eps, min_samples_range, j) ==
    IF j > Len(min_samples_range) THEN <<>>
    ELSE <<[eps |-> eps, min_samples |-> min_samples_range[j]]>>
         \o InnerLoop(eps, min_samples_range, j + 1)

\* outer loop over eps_range
RECURSIVE OuterLoop(_, _, _)
OuterLoop(eps_range, min_samples_range, i) ==
    IF i > Len(eps_range) THEN <<>>
    ELSE InnerLoop(eps_range[i], min_samples_range, 1)
         \o OuterLoop(eps_range, min_samples_range, i + 1)

Enumerate(eps_range, min_samples_range) == OuterLoop(eps_range, min_samples_range, 1)

\* deterministic truncation to the first max_combinations pairs, when the cap is set
Truncate(combos, max_combinations) ==
    IF max_combinations # None /\ Len(combos) > max_combinations[1]
    THEN SubSeq(combos, 1, max_combinations[1])
    ELSE combos

\* one Combination Result: fit, count clusters and noise, score
Evaluate(combo, fit) ==
    LET out == fit[<<combo.eps, combo.min_samples>>] IN
    [eps |-> combo.eps, min_samples |-> combo.min_samples,
     n_clusters |-> NClusters(out.labels),
     noise_points |-> NoisePoints(out.labels),
     silhouette_score |-> SilhouetteScore(out.labels, out.sil)]

\* the undefined marker kept as the number -1 and compared like a score
BetterUndefinedAsMinusOne(score, best) ==
    LET v(x) == IF x = Undefined THEN -1 ELSE x[1] IN v(score) > v(best)

\* an undefined score is strictly worse than any numeric score; ties keep the earlier
Better(score, best) ==
    score # Undefined /\ (best = Undefined \/ score[1] > best[1])

\* the selection loop: the running best starts at the first combination
RECURSIVE SelectBest(_, _, _)
SelectBest(results, i, best) ==
    IF i > Len(results) THEN best
    ELSE SelectBest(results, i + 1,
                    IF Better(results[i].silhouette_score, results[best].silhouette_score)
                    THEN i ELSE best)

find_best_dbscan_params(n_features, eps_range, min_samples_range, max_combinations, fit) ==
    IF Len(eps_range) = 0 \/ Len(min_samples_range) = 0
    THEN [error |-> "InvalidSearchSpace", fits |-> 0]
    ELSE IF NRows < 2
    THEN [error |-> "InsufficientData", fits |-> 0]
    ELSE IF n_features = 0
    THEN [error |-> "ValueError", fits |-> 0]
    ELSE LET combos == Truncate(Enumerate(eps_range, min_samples_range), max_combinations)
             results == [k \in 1..Len(combos) |-> Evaluate(combos[k], fit)]
             best == SelectBest(results, 2, 1)
             best_combo == combos[best]
         IN [error |-> "",
             fits |-> Len(combos),
             best_params |-> best_combo,
             grid_search_results |-> results,
             best_labels |-> fit[<<best_combo.eps, best_combo.min_samples>>].labels,
             best_silhouette_score |-> results[best].silhouette_score]

\* the candidate sequences of a request: k values, in the order given
Candidates(k) == [i \in 1..k |-> i]

\* the DBSCAN/silhouette outcomes of every combination of a search space
Fits(a, b) == [(1..a) \X (1..b) -> FitOutcomes]

---------------------------------------------------------------------------
\* The label aligner (helpers.clustering_helpers.align_labels).

\* the true label occurring most often among the rows of one cluster; ties go
\* to the smaller label
MajorityLabel(true_labels, partition, cluster) ==
    LET members == {i \in DOMAIN partition : partition[i] = cluster}
        count(l) == Cardinality({i \in members : true_labels[i] = l})
        present == {true_labels[i] : i \in members}
        top == {l \in present : \A m \in present : count(l) >= count(m)}
    IN CHOOSE l \in top : \A m \in top : l <= m

align_labels(true_labels, partition) ==
    [i \in DOMAIN partition |->
        IF partition[i] = Noise THEN Noise
        ELSE MajorityLabel(true_labels, partition, partition[i])]

---------------------------------------------------------------------------
\* The multiple factor analysis reducer (helpers.clustering_helpers.CustomMFA).

\* fit_transform on a matrix of n_features columns: the number of columns of
\* the Global Factors, or the error that rejects the request
CustomMFA(groups, n_components_global, n_features) ==
    IF \E g \in DOMAIN groups : Len(groups[g]) = 0
    THEN [error |-> "MalformedGroups", n_features |-> 0]
    ELSE IF n_components_global > n_features
    THEN [error |-> "InvalidComponentCount", n_features |-> 0]
    ELSE [error |-> "", n_features |-> n_components_global]

---------------------------------------------------------------------------
\* POST /clustering (perform_clustering).

\* an HTTPException, and the response it is answered with
HTTPException(status_code, detail) ==
    [kind |-> "HTTPException", status |-> status_code, detail |-> detail,
     cause |-> "", body |-> None]

\* any other exception
Exception(kind) ==
    [kind |-> kind, status |-> 0, detail |-> kind, cause |-> "", body |-> None]

\* what the request has computed so far: the fits made, the shape of the scaled
\* feature matrix, the groups handed to the reducer, the outcomes DBSCAN had and
\* what the grid search returned
Computed(preprocess_fit, mfa_fit, n_scaled, groups) ==
    [preprocess_fit |-> preprocess_fit, mfa_fit |-> mfa_fit, dbscan_fit |-> 0,
     n_scaled |-> n_scaled, groups |-> groups, fit |-> None, returned |-> None]

NothingComputed == Computed(0, 0, None, None)

\* an exception leaving the try block
Raise(exc, done) == [raised |-> TRUE, exc |-> exc, computed |-> done]

Return(body, done) ==
    [raised |-> FALSE,
     exc |-> [kind |-> "", status |-> 200, detail |-> "", cause |-> "",
              body |-> Some(body)],
     computed |-> done]

\* columns.remove(label_column)
Remove(columns, label_column) ==
    LET Keep(c) == c # label_column IN SelectSeq(columns, Keep)

\* the two MFA groups: the numeric block, then the one-hot block
Groups(n_numeric, n_total) ==
    LET n_cat_encoded == n_total - n_numeric
    IN <<Range(0, n_numeric), Range(n_numeric, n_numeric + n_cat_encoded)>>

\* the prediction handed to the five external metrics, were it aligned first
MetricsPredictionAligned(labels_true, best_labels) == align_labels(labels_true, best_labels)

\* the prediction handed to the five external metrics
MetricsPrediction(labels_true, best_labels) == best_labels

\* "label_column if params.label_column_index else None"
ReportedLabelColumn(label_column_index, label_column) ==
    IF label_column_index # None /\ label_column_index[1] # 0 THEN label_column ELSE None

\* np.unique(best_labels) counted with the noise identifier left in
NumberOfClustersCountingNoise(best_labels) == Cardinality(SeqToSet(best_labels))

\* len(all_cluster_ids[all_cluster_ids != -1]), all_cluster_ids = np.unique(best_labels)
NumberOfClusters(best_labels) ==
    LET all_cluster_ids == SeqToSet(best_labels)
    IN Cardinality({c \in all_cluster_ids : c # Noise})

\* the max_combinations argument of the call of find_best_dbscan_params: the
\* call passes features, eps_range and min_samples_range only
MaxCombinationsArgument(params) == None

\* the try block up to the grid search: read the table, separate the label
\* column, classify the columns, fit the preprocessing and, on request, the MFA
ClusteringPrepare(req) ==
    LET columns == Range(0, Len(req.table))
        has_label == req.label_column_index # None
    IN
    IF has_label /\ req.label_column_index[1] >= Len(columns)
    THEN Raise(HTTPException(400, "Invalid label column index"), NothingComputed)
    ELSE
    LET label_column == IF has_label THEN Some(columns[req.label_column_index[1] + 1])
                        ELSE None
        feature_columns == IF has_label THEN Remove(columns, label_column[1]) ELSE columns
        IsNumeric(c) == req.table[c + 1] = "num"
        IsCategorical(c) == req.table[c + 1] # "num"
        numeric_cols == SelectSeq(feature_columns, IsNumeric)
        categorical_cols == SelectSeq(feature_columns, IsCategorical)
        n_numeric == Len(numeric_cols)
        n_scaled == n_numeric + req.levels * Len(categorical_cols)
        groups == IF req.do_mfa THEN Some(Groups(n_numeric, n_scaled)) ELSE None
        mfa == IF req.do_mfa
               THEN CustomMFA(groups[1], req.n_components_global, n_scaled)
               ELSE [error |-> "", n_features |-> n_scaled]
        done == Computed(IF req.do_mfa THEN 2 ELSE 1, IF req.do_mfa THEN 1 ELSE 0,
                         Some(n_scaled), groups)
    IN
    IF mfa.error # ""
    THEN Raise(Exception(mfa.error), done)
    ELSE [raised |-> FALSE,
          label_column |-> label_column,
          labels_true |-> IF has_label THEN Some(req.labels) ELSE None,
          numeric_cols |-> numeric_cols,
          categorical_cols |-> categorical_cols,
          n_features |-> mfa.n_features,
          computed |-> done]

\* the rest of the try block: the grid search, the metrics and the response
ClusteringSearch(req, prepared, fit) ==
    LET found == find_best_dbscan_params(prepared.n_features, req.eps_range,
                                         req.min_samples_range,
                                         MaxCombinationsArgument(req), fit)
        done == [prepared.computed EXCEPT !.dbscan_fit = found.fits, !.fit = Some(fit)]
    IN
    IF found.error # ""
    THEN Raise(Exception(found.error), done)
    ELSE
    LET best_labels == found.best_labels
        labels_true == prepared.labels_true
        additional_metrics ==
            IF labels_true # None
            THEN Some([labels_true |-> labels_true[1],
                       labels_pred |-> MetricsPrediction(labels_true[1], best_labels)])
            ELSE None
    IN Return(
        [preprocessing |->
            [rows_before_processing |-> NRows,
             numeric_columns |-> prepared.numeric_cols,
             categorical_columns |-> prepared.categorical_cols,
             label_column |-> ReportedLabelColumn(req.label_column_index,
                                                  prepared.label_column)],
         grid_search |->
            [parameter_combinations_tested |-> Len(found.grid_search_results),
             best_parameters |-> found.best_params,
             all_results |-> found.grid_search_results],
         clustering_results |->
            [number_of_clusters |-> NumberOfClusters(best_labels),
             noise_points |-> NoisePoints(best_labels),
             noise_percentage |-> (NoisePoints(best_labels) * 100) \div NRows,
             silhouette_coefficient |-> found.best_silhouette_score,
             additional_metrics |-> additional_metrics]],
        [done EXCEPT !.returned =
            Some([best_labels |-> found.best_labels,
                  best_silhouette_score |-> found.best_silhouette_score])])

\* "except Exception as e: raise HTTPException(status_code=500, ...)": every
\* exception of the try block, an HTTPException included, is answered with 500
Except(tried, prefix) ==
    IF ~tried.raised THEN tried.exc
    ELSE [HTTPException(500, prefix) EXCEPT !.cause = tried.exc.detail]

\* the filename check, made before the try block
IsCsv(req) == req.is_csv

---------------------------------------------------------------------------
\* POST /similarity (perform_similarity_search).

Max(a, b) == IF a > b THEN a ELSE b

\* the Python slice s[start:]
SliceFrom(s, start) ==
    LET n == Len(s)
        first == IF start < 0 THEN Max(start + n, 0) ELSE Min(start, n)
    IN SubSeq(s, first + 1, n)

\* the Python slice s[::-1]
Reversed(s) == [i \in 1..Len(s) |-> s[Len(s) + 1 - i]]

\* the orders argsort may return: the positions 0..n-1, by ascending key
ArgSorts(keys) ==
    {p \in [1..Len(keys) -> 0..(Len(keys) - 1)] :
        /\ \A i, j \in 1..Len(keys) : i # j => p[i] # p[j]
        /\ \A i \in 1..(Len(keys) - 1) : keys[p[i] + 1] <= keys[p[i + 1] + 1]}

\* similarities.argsort()[-params.top_k:][::-1]
TopIndices(order, top_k) == Reversed(SliceFrom(order, -top_k))

\* df.dropna(subset=[text_column])
DropNa(rows) == LET HasText(r) == r.text # None IN SelectSeq(rows, HasText)

\* the try block up to the search: read the table, find the text column, drop
\* the rows without text, embed the texts
SimilarityPrepare(req) ==
    IF ~req.has_text_column
    THEN Raise(HTTPException(400, "Text column not found in dataset"), None)
    ELSE
    LET df == DropNa(req.rows) IN
    IF Len(df) = 0
    THEN Raise(HTTPException(400, "No valid text data found in the specified column"), None)
    ELSE
    LET texts == [i \in 1..Len(df) |-> df[i].text[1]] IN
    IF req.query_text # None /\ req.query_text # Some("")
    THEN [raised |-> FALSE, query |-> TRUE, df |-> df, texts |-> texts]
    ELSE [raised |-> FALSE, query |-> FALSE,
          exc |-> [kind |-> "", status |-> 200, detail |-> "", cause |-> "",
                   body |-> Some([total_records |-> Len(df)])]]

\* cosine_similarity([query_embedding], embeddings)[0]
SimilarityScores(texts, similarity) == [i \in 1..Len(texts) |-> similarity[texts[i]]]

\* the rest of the try block: score, take the top k, build the items
SimilaritySearch(req, prepared, similarity, order) ==
    LET similarities == SimilarityScores(prepared.texts, similarity)
        top_indices == TopIndices(order, req.top_k)
    IN Return([query |-> req.query_text[1],
               similar_items |->
                  [k \in 1..Len(top_indices) |->
                      [index |-> top_indices[k],
                       text |-> prepared.texts[top_indices[k] + 1],
                       similarity_score |-> similarities[top_indices[k] + 1],
                       original_row |-> prepared.df[top_indices[k] + 1]]]],
              None)

---------------------------------------------------------------------------
\* The service: one request at a time, nothing kept between requests.

\* the columns of an uploaded table: numeric or categorical
Tables == UNION {[1..n -> {"num", "cat"}] : n \in 1..MaxCols}

\* the contents a label column may have
LabelColumns == {[i \in 1..NRows |-> IF i <= k THEN 1 ELSE 0] : k \in {1, NRows - 1}}

Caps == {Some(SmallCap), Some(DefaultMaxGridSearchCombinations)}

\* the outcomes DBSCAN has on the rows of an uploaded table
RequestFits(a, b) ==
    [(1..a) \X (1..b) ->
        {o \in FitOutcomes : o.labels \in {AllNoise, SingleCluster, TwoClusters} /\ o.sil >= 0}]

\* the texts of a text column, and the similarity of each to the query
Texts == {"a", "b"}
Similarities == {0, 1, 2}

TextRows ==
    UNION {[1..n -> {None} \cup {Some(t) : t \in Texts}] : n \in 0..NRows}

Init ==
    /\ phase = "idle"
    /\ endpoint = ""
    /\ request = None
    /\ response = None
    /\ computed = None

\* GET /
Root ==
    /\ phase = "idle"
    /\ phase' = "done"
    /\ endpoint' = "root"
    /\ request' = None
    /\ response' = [kind |-> "", status |-> 200, detail |-> "", cause |-> "",
                    body |-> Some([message |-> "Welcome to the Data Analysis API"])]
    /\ computed' = None

\* a POST /clustering arrives: an uploaded file and the params form field
PostClustering ==
    /\ phase = "idle"
    /\ \E t \in Tables, a \in 0..MaxCombos, b \in 0..MaxCombos,
          li \in {None} \cup {Some(k) : k \in 0..MaxCols} :
         /\ a * b <= MaxCombos
         /\ \E csv \in BOOLEAN, cap \in Caps, mfa \in BOOLEAN,
               lv \in (IF \E c \in DOMAIN t : t[c] = "cat" THEN {1, MaxLevels} ELSE {1}),
               lb \in (IF li # None /\ li[1] < Len(t) THEN LabelColumns ELSE {<<>>}) :
              request' = [is_csv |-> csv, table |-> t, levels |-> lv,
                          label_column_index |-> li, labels |-> lb,
                          eps_range |-> Candidates(a),
                          min_samples_range |-> Candidates(b),
                          max_grid_search_combinations |-> cap,
                          n_components_global |-> DefaultNComponentsGlobal,
                          do_mfa |-> mfa]
    /\ endpoint' = "clustering"
    /\ phase' = "received"
    /\ UNCHANGED <<response, computed>>

\* perform_clustering
Clustering ==
    /\ phase = "received"
    /\ endpoint = "clustering"
    /\ IF ~IsCsv(request)
       THEN /\ response' = HTTPException(400, "Only CSV files are supported")
            /\ computed' = NothingComputed
       ELSE LET prepared == ClusteringPrepare(request) IN
            IF prepared.raised
            THEN /\ response' = Except(prepared, "Error during clustering")
                 /\ computed' = prepared.computed
            ELSE \E fit \in RequestFits(Len(request.eps_range),
                                        Len(request.min_samples_range)) :
                   LET tried == ClusteringSearch(request, prepared, fit)
                   IN /\ response' = Except(tried, "Error during clustering")
                      /\ computed' = tried.computed
    /\ phase' = "done"
    /\ UNCHANGED <<endpoint, request>>

\* a POST /similarity arrives: an uploaded file and the params form field
PostSimilarity ==
    /\ phase = "idle"
    /\ \E csv \in BOOLEAN, col \in BOOLEAN, rows \in TextRows,
          q \in {None, Some(""), Some("q")}, k \in 0..MaxTopK :
         request' = [is_csv |-> csv, has_text_column |-> col,
                     rows |-> [i \in DOMAIN rows |-> [row |-> i, text |-> rows[i]]],
                     query_text |-> q, top_k |-> k]
    /\ endpoint' = "similarity"
    /\ phase' = "received"
    /\ UNCHANGED <<response, computed>>

\* perform_similarity_search
Similarity ==
    /\ phase = "received"
    /\ endpoint = "similarity"
    /\ IF ~IsCsv(request)
       THEN /\ response' = HTTPException(400, "Only CSV files are supported")
            /\ computed' = None
       ELSE LET prepared == SimilarityPrepare(request) IN
            IF prepared.raised \/ ~prepared.query
            THEN /\ response' = Except(prepared, "Error during similarity search")
                 /\ computed' = None
            ELSE \E sim \in [Texts -> Similarities] :
                   \E order \in ArgSorts(SimilarityScores(prepared.texts, sim)) :
                     /\ response' = Except(SimilaritySearch(request, prepared, sim, order),
                                           "Error during similarity search")
                     /\ computed' = Some([similarity |-> sim, order |-> order])
    /\ phase' = "done"
    /\ UNCHANGED <<endpoint, request>>

\* the response is sent; the next request starts from nothing
Reset ==
    /\ phase = "done"
    /\ phase' = "idle"
    /\ endpoint' = ""
    /\ request' = None
    /\ response' = None
    /\ computed' = None

Next == Root \/ PostClustering \/ Clustering \/ PostSimilarity \/ Similarity \/ Reset

Spec == Init /\ [][Next]_vars

---------------------------------------------------------------------------
\* find_best_dbscan_params applied to drawn inputs.

InitSearch ==
    /\ phase = "idle"
    /\ endpoint = "find_best_dbscan_params"
    /\ \E a \in 0..MaxCombos, b \in 0..MaxCombos :
         /\ a * b <= MaxCombos
         /\ \E c \in {None} \cup {Some(k) : k \in 1..MaxCombos}, f \in Fits(a, b) :
              request = [eps_range |-> Candidates(a), min_samples_range |-> Candidates(b),
                         max_combinations |-> c, fit |-> f]
    /\ response = None
    /\ computed = None

CallSearch ==
    /\ phase = "idle"
    /\ phase' = "done"
    /\ response' = find_best_dbscan_params(1, request.eps_range, request.min_samples_range,
                                           request.max_combinations, request.fit)
    /\ UNCHANGED <<endpoint, request, computed>>

SpecSearch == InitSearch /\ [][CallSearch]_vars

---------------------------------------------------------------------------
\* align_labels applied to drawn inputs.

\* the values of a true-label sequence
TrueLabels == {-1, 0, 1}

\* the identifiers of a predicted partition
ClusterIds == {Noise, 0, 1}

InitAlign ==
    /\ phase = "idle"
    /\ endpoint = "align_labels"
    /\ \E t \in [1..NRows -> TrueLabels], p \in [1..NRows -> ClusterIds] :
         request = [true_labels |-> t, partition |-> p]
    /\ response = None
    /\ computed = None

CallAlign ==
    /\ phase = "idle"
    /\ phase' = "done"
    /\ response' = align_labels(request.true_labels, request.partition)
    /\ UNCHANGED <<endpoint, request, computed>>

SpecAlign == InitAlign /\ [][CallAlign]_vars

---------------------------------------------------------------------------
\* Properties.

ClusteringDone == phase = "done" /\ endpoint = "clustering"

ClusteringSucceeded == ClusteringDone /\ response.status = 200

SimilarityDone == phase = "done" /\ endpoint = "similarity"

\* the k-th pair of the enumeration with eps as the outer loop
NthCombination(eps_range, min_samples_range, k) ==
    [eps |-> eps_range[((k - 1) \div Len(min_samples_range)) + 1],
     min_samples |-> min_samples_range[((k - 1) % Len(min_samples_range)) + 1]]

\* C1: a successful clustering request tests min(cap, |eps_range| * |min_samples_range|)
\* combinations, the first ones of the enumeration with eps outer and min_samples
\* inner, so parameter_combinations_tested never exceeds max_grid_search_combinations.
C1_TestedCombinationsRespectCap ==
    ClusteringSucceeded =>
        LET grid == response.body[1].grid_search
            product == Len(request.eps_range) * Len(request.min_samples_range)
            cap == request.max_grid_search_combinations[1]
        IN /\ Len(grid.all_results) = Min(cap, product)
           /\ grid.parameter_combinations_tested = Len(grid.all_results)
           /\ grid.parameter_combinations_tested <= cap
           /\ \A k \in 1..Len(grid.all_results) :
                LET nth == NthCombination(request.eps_range, request.min_samples_range, k)
                IN /\ grid.all_results[k].eps = nth.eps
                   /\ grid.all_results[k].min_samples = nth.min_samples

\* C2: when some combination of the search has a defined score, the combination
\* returned as best has a defined score, no defined score of the list is greater,
\* every earlier combination scores strictly less or is undefined, and the
\* returned partition and score are those of that combination.
C2_BestIsStableArgmax ==
    (phase = "done" /\ response.error = "") =>
        LET results == response.grid_search_results
            Defined(k) == results[k].silhouette_score # Undefined
            Value(k) == results[k].silhouette_score[1]
        IN \E b \in 1..Len(results) :
              /\ results[b].eps = response.best_params.eps
              /\ results[b].min_samples = response.best_params.min_samples
              /\ response.best_silhouette_score = results[b].silhouette_score
              /\ response.best_labels =
                    request.fit[<<results[b].eps, results[b].min_samples>>].labels
              /\ (\E k \in 1..Len(results) : Defined(k)) =>
                    /\ Defined(b)
                    /\ \A k \in 1..Len(results) : Defined(k) => Value(k) <= Value(b)
                    /\ \A k \in 1..(b - 1) : Defined(k) => Value(k) < Value(b)

\* a search whose first score is undefined, whose second is a defined -1 and whose
\* maximum is reached twice later: the earlier of the two is returned
C2_Witness ==
    /\ phase = "done"
    /\ response.error = ""
    /\ Len(response.grid_search_results) = 4
    /\ response.grid_search_results[1].silhouette_score = Undefined
    /\ response.grid_search_results[2].silhouette_score = Some(-1)
    /\ response.grid_search_results[3].silhouette_score = Some(1)
    /\ response.grid_search_results[4].silhouette_score = Some(1)
    /\ response.best_params = Enumerate(request.eps_range, request.min_samples_range)[3]

\* the grid search of the request was called on a feature matrix with columns and
\* a non-empty search space, and every fit of the space comes out degenerate
AllCombinationsDegenerate ==
    /\ ClusteringDone
    /\ computed.fit # None
    /\ computed.n_scaled[1] >= 1
    /\ Len(request.eps_range) >= 1
    /\ Len(request.min_samples_range) >= 1
    /\ \A c \in DOMAIN computed.fit[1] : Degenerate(computed.fit[1][c].labels)

\* C3: when every enumerated combination is degenerate the request is answered 200:
\* every combination is recorded with an undefined score, the best partition is the
\* one of the first enumerated combination, the best score is undefined, and the
\* cluster and noise counts of the response are those of that partition.
C3_AllDegenerateStillAnswered ==
    AllCombinationsDegenerate =>
        /\ response.status = 200
        /\ LET body == response.body[1]
               first == computed.fit[1][<<request.eps_range[1],
                                          request.min_samples_range[1]>>].labels
           IN /\ computed.dbscan_fit = Len(request.eps_range) * Len(request.min_samples_range)
              /\ Len(body.grid_search.all_results) = computed.dbscan_fit
              /\ \A k \in DOMAIN body.grid_search.all_results :
                    body.grid_search.all_results[k].silhouette_score = Undefined
              /\ body.grid_search.best_parameters =
                    [eps |-> request.eps_range[1],
                     min_samples |-> request.min_samples_range[1]]
              /\ computed.returned[1].best_labels = first
              /\ computed.returned[1].best_silhouette_score = Undefined
              /\ body.clustering_results.silhouette_coefficient = Undefined
              /\ body.clustering_results.number_of_clusters = NClusters(first)
              /\ body.clustering_results.noise_points = NoisePoints(first)

\* an all-degenerate search of four combinations whose first fit is all noise and
\* whose later fits are not
C3_Witness ==
    /\ AllCombinationsDegenerate
    /\ Len(request.eps_range) = 2
    /\ Len(request.min_samples_range) = 2
    /\ computed.fit[1][<<1, 1>>].labels = AllNoise
    /\ computed.fit[1][<<1, 2>>].labels = SingleCluster
    /\ computed.fit[1][<<2, 2>>].labels = SingleCluster
    /\ request.label_column_index # None
    /\ response.status = 200

\* C4: a request with an empty eps_range or min_samples_range fails with the
\* invalid-search-space error, and no preprocessing fit, MFA fit or DBSCAN fit has
\* been made for it.
C4_EmptySearchSpaceRejectedFirst ==
    (/\ ClusteringDone
     /\ request.is_csv
     /\ Len(request.eps_range) = 0 \/ Len(request.min_samples_range) = 0) =>
        /\ response.status # 200
        /\ response.cause = "InvalidSearchSpace"
        /\ computed.preprocess_fit = 0
        /\ computed.mfa_fit = 0
        /\ computed.dbscan_fit = 0

\* C5: the groups handed to the MFA reducer are non-empty, pairwise disjoint and
\* cover the columns 0..n_features-1 of the scaled feature matrix.
C5_GroupsPartitionColumns ==
    (ClusteringDone /\ computed.groups # None) =>
        LET groups == computed.groups[1]
            n_features == computed.n_scaled[1]
        IN /\ \A g \in DOMAIN groups : Len(groups[g]) > 0
           /\ \A g, h \in DOMAIN groups :
                g # h => SeqToSet(groups[g]) \cap SeqToSet(groups[h]) = {}
           /\ \A g \in DOMAIN groups :
                Cardinality(SeqToSet(groups[g])) = Len(groups[g])
           /\ UNION {SeqToSet(groups[g]) : g \in DOMAIN groups} = 0..(n_features - 1)

\* C6: with a label column, the external metrics are computed from the true labels
\* and the partition exactly as the grid search returned it, and the cluster and
\* noise counts of the response are those of that partition.
C6_MetricsOnRawPartition ==
    (ClusteringSucceeded /\ request.label_column_index # None) =>
        LET results == response.body[1].clustering_results
            raw == computed.returned[1].best_labels
        IN /\ results.additional_metrics # None
           /\ results.additional_metrics[1].labels_true = request.labels
           /\ results.additional_metrics[1].labels_pred = raw
           /\ results.number_of_clusters = NClusters(raw)
           /\ results.noise_points = NoisePoints(raw)

\* a labelled request whose best partition the aligner would relabel
C6_Witness ==
    /\ ClusteringSucceeded
    /\ request.label_column_index # None
    /\ computed.returned[1].best_labels = TwoClusters
    /\ align_labels(request.labels, computed.returned[1].best_labels)
          # computed.returned[1].best_labels

\* C7: align_labels returns a partition of the same length in which position i is
\* noise if and only if position i of the input partition is noise.
C7_NoiseIffNoise ==
    (phase = "done" /\ endpoint = "align_labels") =>
        /\ Len(response) = Len(request.partition)
        /\ \A i \in DOMAIN request.partition :
              response[i] = Noise <=> request.partition[i] = Noise

\* C8: a label_column_index not smaller than the number of columns, a text_column
\* that is no column of the table, and a text column without any text are each
\* answered with status 400 and the validation message.
C8_ValidationAnswered400 ==
    /\ (/\ ClusteringDone
        /\ request.is_csv
        /\ request.label_column_index # None
        /\ request.label_column_index[1] >= Len(request.table)) =>
          /\ response.status = 400
          /\ response.detail = "Invalid label column index"
    /\ (SimilarityDone /\ request.is_csv /\ ~request.has_text_column) =>
          /\ response.status = 400
          /\ response.detail = "Text column not found in dataset"
    /\ (/\ SimilarityDone
        /\ request.is_csv
        /\ request.has_text_column
        /\ \A i \in DOMAIN request.rows : request.rows[i].text = None) =>
          /\ response.status = 400
          /\ response.detail = "No valid text data found in the specified column"

\* C9: a similarity search over n >= 1 rows with text and top_k >= 0 returns
\* min(top_k, n) items, the highest scored ones, in non-increasing order of score,
\* each with the text and the row of its index.
C9_TopKItems ==
    (/\ SimilarityDone
     /\ request.is_csv
     /\ request.has_text_column
     /\ request.query_text \notin {None, Some("")}
     /\ Len(DropNa(request.rows)) >= 1
     /\ request.top_k >= 0) =>
        /\ response.status = 200
        /\ LET items == response.body[1].similar_items
               df == DropNa(request.rows)
               score(i) == computed[1].similarity[df[i].text[1]]
               returned == {items[k].index + 1 : k \in DOMAIN items}
           IN /\ Len(items) = Min(request.top_k, Len(df))
              /\ Cardinality(returned) = Len(items)
              /\ \A k \in 1..(Len(items) - 1) :
                    items[k].similarity_score >= items[k + 1].similarity_score
              /\ \A k \in DOMAIN items :
                    /\ items[k].index + 1 \in DOMAIN df
                    /\ items[k].original_row = df[items[k].index + 1]
                    /\ items[k].text = df[items[k].index + 1].text[1]
                    /\ items[k].similarity_score = score(items[k].index + 1)
              /\ \A i \in DOMAIN df : \A k \in DOMAIN items :
                    i \notin returned => score(i) <= items[k].similarity_score

\* C10: the label_column of the response is the column removed from the features
\* exactly when a label_column_index was supplied, None otherwise, and that column
\* is not among the numeric or categorical columns of the response.
C10_LabelColumnReported ==
    ClusteringSucceeded =>
        LET pre == response.body[1].preprocessing
            index == request.label_column_index
        IN /\ index # None => pre.label_column = Some(index[1])
           /\ index = None => pre.label_column = None
           /\ index # None =>
                 index[1] \notin SeqToSet(pre.numeric_columns)
                                   \cup SeqToSet(pre.categorical_columns)

====
